---- MODULE Spec2Model ----
(***************************************************************************)
(* KORBUX-IA middleware: request metrics (Metrics module), authentication  *)
(* (Middleware/auth.js) and request validation (Middleware/validacion.js). *)
(*                                                                         *)
(* JavaScript strings that the code takes apart (trim, split, startsWith,  *)
(* parseInt) are sequences of one-character strings; strings that are only *)
(* compared are TLA+ strings.  Messages are written without their accents  *)
(* and emoji.                                                              *)
(***************************************************************************)
EXTENDS Integers, Sequences, FiniteSets, TLC

VARIABLES
    metricsStore,   \* the module-level metricsStore object
    inFlight,       \* requests whose 'finish' callback is registered and has not fired
    done,           \* history: every log entry ever built, in completion order
    lastCall,       \* the last exported function called, with its argument
    ret,            \* what that call returned
    console,        \* the messages written with console.warn / console.error
    env,            \* process.env: JWT_SECRET, NODE_ENV, API_KEYS
    proc,           \* "loading" | "running" | "exited"
    API_KEYS,       \* auth.js module constant, set at load
    JWT_SECRET,     \* auth.js module constant, set at load
    authReq,        \* the request handed to authenticateRequest
    authOut,        \* what authenticateRequest did with it
    authFault,      \* the call that threw while it was handled, or "none"
    valReq,         \* the body handed to validarInteraccion
    valOut,         \* what validarInteraccion did with it
    errCall,        \* the last Errores factory called, with its arguments
    errOut          \* what that factory returned or threw

vars == <<metricsStore, inFlight, done, lastCall, ret, console,
          env, proc, API_KEYS, JWT_SECRET, authReq, authOut, authFault,
          valReq, valOut, errCall, errOut>>

metricsVars == <<metricsStore, inFlight, done, lastCall, ret>>
authVars == <<env, proc, API_KEYS, JWT_SECRET, authReq, authOut, authFault>>
valVars == <<valReq, valOut>>
errVars == <<errCall, errOut>>

(***************************************************************************)
(* Bounds of the model                                                     *)
(***************************************************************************)
MaxRequests == 2        \* requests observed on top of the warm-up
MaxCount == 1           \* calls of count() with a valid name, per name
MaxMoreCount == 2       \* the same, for the further names of SpecCounters

(***************************************************************************)
(* JavaScript values and string primitives                                 *)
(***************************************************************************)
Undefined == [t |-> "undefined", n |-> 0, s |-> <<>>]
Null == [t |-> "null", n |-> 0, s |-> <<>>]
Num(k) == [t |-> "number", n |-> k, s |-> <<>>]
Str(cs) == [t |-> "string", n |-> 0, s |-> cs]
Obj == [t |-> "object", n |-> 0, s |-> <<>>]

NaN == [nan |-> TRUE, val |-> 0]
Int32(k) == [nan |-> FALSE, val |-> k]

WhiteSpace == {" ", "\t", "\n"}
DigitChars == <<"0", "1", "2", "3", "4", "5", "6", "7", "8", "9">>
IsDigit(c) == \E i \in 1..10 : DigitChars[i] = c
DigitVal(c) == (CHOOSE i \in 1..10 : DigitChars[i] = c) - 1

RECURSIVE TrimStart(_)
TrimStart(cs) ==
    IF cs # <<>> /\ Head(cs) \in WhiteSpace THEN TrimStart(Tail(cs)) ELSE cs

RECURSIVE TrimEnd(_)
TrimEnd(cs) ==
    IF cs # <<>> /\ cs[Len(cs)] \in WhiteSpace
    THEN TrimEnd(SubSeq(cs, 1, Len(cs) - 1))
    ELSE cs

\* String.prototype.trim
Trim(cs) == TrimEnd(TrimStart(cs))

\* String.prototype.startsWith
StartsWith(cs, prefix) ==
    /\ Len(cs) >= Len(prefix)
    /\ SubSeq(cs, 1, Len(prefix)) = prefix

\* String.prototype.split with a one-character separator
RECURSIVE SplitFrom(_, _, _)
SplitFrom(cs, sep, cur) ==
    IF cs = <<>> THEN <<cur>>
    ELSE IF Head(cs) = sep THEN <<cur>> \o SplitFrom(Tail(cs), sep, <<>>)
    ELSE SplitFrom(Tail(cs), sep, Append(cur, Head(cs)))

Split(cs, sep) == SplitFrom(cs, sep, <<>>)

\* Array.prototype.filter(Boolean) on an array of strings
RECURSIVE FilterBoolean(_)
FilterBoolean(a) ==
    IF a = <<>> THEN <<>>
    ELSE IF Head(a) = <<>> THEN FilterBoolean(Tail(a))
    ELSE <<Head(a)>> \o FilterBoolean(Tail(a))

\* Array.prototype.includes
Includes(a, x) == \E i \in 1..Len(a) : a[i] = x

\* Number.prototype.toString for integers
RECURSIVE NatToChars(_)
NatToChars(k) ==
    IF k < 10 THEN <<DigitChars[k + 1]>>
    ELSE Append(NatToChars(k \div 10), DigitChars[(k % 10) + 1])

NumToChars(k) == IF k < 0 THEN <<"-">> \o NatToChars(-k) ELSE NatToChars(k)

\* ToString of a value, as parseInt applies it to its argument
ToChars(v) ==
    CASE v.t = "string" -> v.s
      [] v.t = "number" -> NumToChars(v.n)
      [] v.t = "undefined" -> <<"u", "n", "d", "e", "f", "i", "n", "e", "d">>
      [] v.t = "null" -> <<"n", "u", "l", "l">>
      [] OTHER -> <<"[", "o", "b", "j", "e", "c", "t", " ", "O", "b", "j", "e", "c", "t", "]">>

\* the value of the longest prefix of digits, acc digits read so far
RECURSIVE ParseDigits(_, _)
ParseDigits(cs, acc) ==
    IF cs # <<>> /\ IsDigit(Head(cs))
    THEN ParseDigits(Tail(cs), 10 * acc + DigitVal(Head(cs)))
    ELSE acc

\* parseInt(v, 10): leading white space, an optional sign, then digits
ParseInt(v) ==
    LET cs == TrimStart(ToChars(v))
        neg == cs # <<>> /\ Head(cs) = "-"
        body == IF cs # <<>> /\ Head(cs) \in {"-", "+"} THEN Tail(cs) ELSE cs
    IN  IF body = <<>> \/ ~IsDigit(Head(body)) THEN NaN
        ELSE Int32(IF neg THEN 0 - ParseDigits(body, 0) ELSE ParseDigits(body, 0))

Max(a, b) == IF a >= b THEN a ELSE b
Min(a, b) == IF a <= b THEN a ELSE b

\* Array.prototype.reverse
Reverse(a) == [i \in 1..Len(a) |-> a[Len(a) + 1 - i]]

\* Array.prototype.slice(-k) for k >= 1
SliceLast(a, k) == SubSeq(a, Max(Len(a) - k, 0) + 1, Len(a))

(***************************************************************************)
(* Metrics module                                                          *)
(***************************************************************************)
MAX_LOG_ENTRIES == 1000

\* statuses a response finishes with: both edges of the success range
Statuses == {199, 200, 399, 400}

EmptyStore ==
    [totalRequests |-> 0,
     successfulResponses |-> 0,
     failedResponses |-> 0,
     customCounters |-> [k \in {} |-> 0],
     requestLog |-> <<>>]

\* metricsMiddleware up to next(): count the request
Observe(st) == [st EXCEPT !.totalRequests = @ + 1]

\* the log entry the 'finish' callback builds for request r
LogEntry(r, status) == [req |-> r, status |-> status]

\* variant: the log is never trimmed
PushLogNoShift(log, e) == Append(log, e)

\* variant: over capacity, the newest entry is dropped instead of the oldest
PushLogPop(log, e) ==
    LET pushed == Append(log, e)
    IN  IF Len(pushed) > MAX_LOG_ENTRIES
        THEN SubSeq(pushed, 1, Len(pushed) - 1)
        ELSE pushed

\* requestLog.push(logEntry), then shift() once the log is over capacity
PushLog(log, e) ==
    LET pushed == Append(log, e)
    IN  IF Len(pushed) > MAX_LOG_ENTRIES THEN Tail(pushed) ELSE pushed

\* variant: only statuses from 400 up count as failed
FinishedFrom400(st, r, status) ==
    LET counted ==
            IF status >= 200 /\ status < 400
            THEN [st EXCEPT !.successfulResponses = @ + 1]
            ELSE IF status >= 400
            THEN [st EXCEPT !.failedResponses = @ + 1]
            ELSE st
    IN  [counted EXCEPT !.requestLog = PushLog(@, LogEntry(r, status))]

\* the 'finish' callback of request r, whose response has the given status
Finished(st, r, status) ==
    LET counted ==
            IF status >= 200 /\ status < 400
            THEN [st EXCEPT !.successfulResponses = @ + 1]
            ELSE [st EXCEPT !.failedResponses = @ + 1]
    IN  [counted EXCEPT !.requestLog = PushLog(@, LogEntry(r, status))]

\* the store after requests lo..hi arrived and finished one after the other
RECURSIVE ServedFrom(_, _, _)
ServedFrom(st, lo, hi) ==
    IF lo > hi THEN st
    ELSE IF lo = hi THEN Finished(Observe(st), lo, 200)
    ELSE LET mid == (lo + hi) \div 2      \* served half by half
             half == ServedFrom(st, lo, mid)
         IN  IF half.totalRequests = st.totalRequests + (mid - lo + 1)
             THEN ServedFrom(half, mid + 1, hi)
             ELSE half

\* the store after the first n requests of a process were served that way
Served(n) == ServedFrom(EmptyStore, 1, n)

\* the entries those n requests logged
ServedEntries(n) == [i \in 1..n |-> LogEntry(i, 200)]

\* a fresh process, and one that has served almost a full log of requests
WarmUps == {0, MAX_LOG_ENTRIES - 1}

\* getLastRequests(limit)
EffectiveLimit(limit) ==
    LET arg == IF limit.t = "undefined" THEN Num(10) ELSE limit
        parsed == ParseInt(arg)
        orTen == IF parsed.nan \/ parsed.val = 0 THEN 10 ELSE parsed.val
    IN  Max(1, orTen)

\* variant: the slice is returned without reversing it
GetLastRequestsOldestFirst(log, limit) ==
    IF Len(log) = 0 THEN <<>>
    ELSE SliceLast(log, EffectiveLimit(limit))

GetLastRequestsOf(log, limit) ==
    IF Len(log) = 0 THEN <<>>
    ELSE Reverse(SliceLast(log, EffectiveLimit(limit)))

\* variant: the stored log is reversed in place before it is sliced
StoreReversedInPlace(st, limit) ==
    IF Len(st.requestLog) = 0 THEN st
    ELSE [st EXCEPT !.requestLog = Reverse(st.requestLog)]

\* getLastRequests(limit): metricsStore after the call; slice returns a new
\* array and reverse acts on that array
StoreAfterGetLastRequests(st, limit) == st

\* getMetrics(): the part of the result that comes from metricsStore
GetMetricsOf(st) ==
    [totalRequests |-> st.totalRequests,
     successfulResponses |-> st.successfulResponses,
     failedResponses |-> st.failedResponses,
     customCounters |-> st.customCounters]

\* customCounters.get(eventName) || 0
CounterOf(st, eventName) ==
    IF eventName.t = "string" /\ eventName.s \in DOMAIN st.customCounters
    THEN st.customCounters[eventName.s]
    ELSE 0

\* count(eventName): what it writes to the console
CountWarning(eventName) ==
    IF eventName.t # "string" \/ Trim(eventName.s) = <<>>
    THEN {"Event name para contador es invalido."}
    ELSE {}

\* variant: the name is compared with "" without trimming it
CountOfNoTrim(st, eventName) ==
    IF eventName.t # "string" \/ eventName.s = <<>> THEN st
    ELSE LET cur == CounterOf(st, eventName)
         IN  [st EXCEPT !.customCounters =
                 [k \in (DOMAIN @) \cup {eventName.s} |->
                     IF k = eventName.s THEN cur + 1 ELSE @[k]]]

\* count(eventName)
CountOf(st, eventName) ==
    IF eventName.t # "string" \/ Trim(eventName.s) = <<>> THEN st
    ELSE LET cur == CounterOf(st, eventName)
         IN  [st EXCEPT !.customCounters =
                 [k \in (DOMAIN @) \cup {eventName.s} |->
                     IF k = eventName.s THEN cur + 1 ELSE @[k]]]

NoCall == [op |-> "none", arg |-> Undefined]

\* limits getLastRequests is called with
Limits ==
    {Undefined, Num(0 - 5), Num(0), Num(1), Num(3), Num(10),
     Num(MAX_LOG_ENTRIES + 1),
     Str(<<"a", "b", "c">>), Str(<<" ", "2", "x">>)}

\* names count is called with
EventNames ==
    {Str(<<"o", "k">>), Str(<<>>), Str(<<" ", " ">>), Num(7), Undefined}

\* further names: one with white space around it, one of white space only
MoreEventNames == {Str(<<" ", "a", " ">>), Str(<<"\t">>)}

InitMetricsVars ==
    /\ \E n \in WarmUps :
          /\ metricsStore = Served(n)
          /\ done = ServedEntries(n)
    /\ inFlight = {}
    /\ lastCall = NoCall
    /\ ret = <<>>

\* the warm-up this run started from
WarmUp == CHOOSE n \in WarmUps :
              n <= metricsStore.totalRequests
                /\ metricsStore.totalRequests <= n + MaxRequests

\* metricsMiddleware(req, res, next): request r arrives
MetricsMiddleware ==
    /\ metricsStore.totalRequests < WarmUp + MaxRequests
    /\ LET r == metricsStore.totalRequests + 1
       IN  /\ metricsStore' = Observe(metricsStore)
           /\ inFlight' = inFlight \cup {r}
    /\ lastCall' = [op |-> "metricsMiddleware", arg |-> Undefined]
    /\ ret' = <<>>
    /\ UNCHANGED <<done, console>>

\* res emits 'finish' for an in-flight request
Finish ==
    \E r \in inFlight, status \in Statuses :
        /\ metricsStore' = Finished(metricsStore, r, status)
        /\ inFlight' = inFlight \ {r}
        /\ done' = Append(done, LogEntry(r, status))
        /\ lastCall' = [op |-> "finish", arg |-> Undefined]
        /\ ret' = <<>>
        /\ UNCHANGED console

\* count(name), called while the counter of that name is below most
CountNamed(name, most) ==
    /\ CounterOf(metricsStore, name) < most
    /\ metricsStore' = CountOf(metricsStore, name)
    /\ console' = console \cup CountWarning(name)
    /\ lastCall' = [op |-> "count", arg |-> name]
    /\ ret' = <<>>
    /\ UNCHANGED <<inFlight, done>>

\* count(eventName)
Count == \E name \in EventNames : CountNamed(name, MaxCount)

\* count(eventName) with the further names
CountMore == \E name \in MoreEventNames : CountNamed(name, MaxMoreCount)

\* getMetrics()
GetMetrics ==
    /\ ret' = <<GetMetricsOf(metricsStore)>>
    /\ lastCall' = [op |-> "getMetrics", arg |-> Undefined]
    /\ UNCHANGED <<metricsStore, inFlight, done, console>>

\* getLastRequests(limit)
GetLastRequests ==
    \E limit \in Limits :
        /\ ret' = GetLastRequestsOf(metricsStore.requestLog, limit)
        /\ metricsStore' = StoreAfterGetLastRequests(metricsStore, limit)
        /\ lastCall' = [op |-> "getLastRequests", arg |-> limit]
        /\ UNCHANGED <<inFlight, done, console>>

InitMetrics ==
    /\ InitMetricsVars
    /\ console = {}
    /\ env = [JWT_SECRET |-> <<>>, NODE_ENV |-> <<>>, API_KEYS |-> <<>>]
    /\ proc = "loading"
    /\ API_KEYS = <<>>
    /\ JWT_SECRET = <<>>
    /\ authReq = <<>>
    /\ authOut = <<>>
    /\ authFault = "none"
    /\ valReq = <<>>
    /\ valOut = <<>>
    /\ errCall = <<>>
    /\ errOut = <<>>

NextMetrics ==
    \/ MetricsMiddleware /\ UNCHANGED <<authVars, valVars, errVars>>
    \/ Finish /\ UNCHANGED <<authVars, valVars, errVars>>
    \/ Count /\ UNCHANGED <<authVars, valVars, errVars>>
    \/ GetMetrics /\ UNCHANGED <<authVars, valVars, errVars>>
    \/ GetLastRequests /\ UNCHANGED <<authVars, valVars, errVars>>

SpecMetrics == InitMetrics /\ [][NextMetrics]_vars

\* the Metrics module in a fresh process, with the further event names
InitCounters == InitMetrics /\ metricsStore = EmptyStore

NextCounters ==
    \/ NextMetrics
    \/ CountMore /\ UNCHANGED <<authVars, valVars, errVars>>

SpecCounters == InitCounters /\ [][NextCounters]_vars

(***************************************************************************)
(* Properties of the Metrics module                                        *)
(***************************************************************************)

\* C1: whenever no observed request is still in flight, totalRequests equals
\* successfulResponses + failedResponses and equals the number of requests
\* that were observed and have completed.
C1_CountersBalance ==
    inFlight = {} =>
        /\ metricsStore.totalRequests
             = metricsStore.successfulResponses + metricsStore.failedResponses
        /\ metricsStore.totalRequests = Len(done)

\* two requests overlapped, both classes of response occurred, none is left
C1_Witness ==
    /\ inFlight = {}
    /\ lastCall.op = "finish"
    /\ metricsStore.failedResponses >= 1
    /\ Len(done) >= 2
    /\ done[Len(done)].req < done[Len(done) - 1].req

\* C2: the request log never holds more than MAX_LOG_ENTRIES (1000) entries
\* in any state between operations.
C2_LogBounded == Len(metricsStore.requestLog) <= MAX_LOG_ENTRIES

\* a completion arrived at a full log
C2_Witness ==
    /\ Len(done) > MAX_LOG_ENTRIES
    /\ Len(metricsStore.requestLog) = MAX_LOG_ENTRIES

\* C3: after k completions the log is exactly the last min(k, 1000) entries
\* built, in completion order, oldest first.
C3_LogIsRecentSuffix ==
    LET k == Len(done)
        kept == Min(k, MAX_LOG_ENTRIES)
    IN  metricsStore.requestLog = SubSeq(done, k - kept + 1, k)

\* 1001 completions: the first entry built is gone, the second is the oldest
C3_Witness ==
    /\ Len(done) = MAX_LOG_ENTRIES + 1
    /\ metricsStore.requestLog[1] = done[2]
    /\ metricsStore.requestLog[MAX_LOG_ENTRIES] = done[MAX_LOG_ENTRIES + 1]

\* C4: for a positive integer limit, getLastRequests returns the
\* min(limit, log length) most recently completed entries, most recent
\* first; it returns the empty sequence when no request has completed.
C4_LastRequestsNewestFirst ==
    lastCall.op = "getLastRequests" =>
        /\ (lastCall.arg.t = "number" /\ lastCall.arg.n > 0) =>
              LET k == Min(lastCall.arg.n, Len(metricsStore.requestLog))
              IN  ret = [i \in 1..k |-> done[Len(done) + 1 - i]]
        /\ Len(done) = 0 => ret = <<>>

\* limit 3 on a log of at least five entries whose last two completed
\* against their arrival order
C4_Witness ==
    /\ lastCall = [op |-> "getLastRequests", arg |-> Num(3)]
    /\ Len(done) >= 5
    /\ done[Len(done)].req < done[Len(done) - 1].req
    /\ ret = <<done[Len(done)], done[Len(done) - 1], done[Len(done) - 2]>>

\* a limit that is a number not above zero
NonPositive(v) == v.t = "number" /\ v.n <= 0

\* a limit that is a string without any digit
NonNumeric(v) == v.t = "string" /\ \A i \in 1..Len(v.s) : ~IsDigit(v.s[i])

\* C5: getLastRequests with a non-positive or non-numeric limit returns what
\* getLastRequests(10) returns.
C5_InvalidLimitIsTen ==
    (lastCall.op = "getLastRequests"
        /\ (NonPositive(lastCall.arg) \/ NonNumeric(lastCall.arg))) =>
        ret = GetLastRequestsOf(metricsStore.requestLog, Num(10))

\* a name that is a string with a character that is not white space
ValidName(v) ==
    v.t = "string" /\ \E i \in 1..Len(v.s) : v.s[i] \notin WhiteSpace

\* C12: count with a name that is not a string or is empty after trimming
\* changes no custom counter, no request counter and not the log, warns and
\* returns normally; with a valid name it adds 1 to exactly that counter
\* (creating it at 1) and changes nothing else.
C12_CountEffect ==
    [][lastCall'.op = "count" =>
         LET name == lastCall'.arg
             old == metricsStore.customCounters
             new == metricsStore'.customCounters
         IN  /\ ret' = <<>>
             /\ metricsStore'.totalRequests = metricsStore.totalRequests
             /\ metricsStore'.successfulResponses = metricsStore.successfulResponses
             /\ metricsStore'.failedResponses = metricsStore.failedResponses
             /\ metricsStore'.requestLog = metricsStore.requestLog
             /\ IF ValidName(name)
                THEN /\ DOMAIN new = DOMAIN old \cup {name.s}
                     /\ new[name.s] = (IF name.s \in DOMAIN old THEN old[name.s] ELSE 0) + 1
                     /\ \A k \in DOMAIN old \ {name.s} : new[k] = old[k]
                ELSE /\ new = old
                     /\ "Event name para contador es invalido." \in console'
    ]_vars

\* a counter went from 1 to 2 next to another one that stayed at 1, after a
\* blank name had been refused and a request had been logged
C12_Witness ==
    /\ lastCall = [op |-> "count", arg |-> Str(<<" ", "a", " ">>)]
    /\ DOMAIN metricsStore.customCounters = {<<"o", "k">>, <<" ", "a", " ">>}
    /\ metricsStore.customCounters[<<"o", "k">>] = 1
    /\ metricsStore.customCounters[<<" ", "a", " ">>] = 2
    /\ "Event name para contador es invalido." \in console
    /\ Len(metricsStore.requestLog) = 1

\* C13: a call of getMetrics or of getLastRequests, with any limit, leaves
\* totalRequests, successfulResponses, failedResponses, the custom counters and
\* the content and order of requestLog as they were.
C13_ReadOnly ==
    [][lastCall'.op \in {"getMetrics", "getLastRequests"} =>
          /\ metricsStore'.totalRequests = metricsStore.totalRequests
          /\ metricsStore'.successfulResponses = metricsStore.successfulResponses
          /\ metricsStore'.failedResponses = metricsStore.failedResponses
          /\ metricsStore'.customCounters = metricsStore.customCounters
          /\ metricsStore'.requestLog = metricsStore.requestLog]_vars

\* getLastRequests(1001) returned the whole full log newest first, and the
\* stored log is still oldest first
C13_Witness ==
    /\ lastCall = [op |-> "getLastRequests", arg |-> Num(MAX_LOG_ENTRIES + 1)]
    /\ Len(ret) = MAX_LOG_ENTRIES
    /\ Len(metricsStore.requestLog) = MAX_LOG_ENTRIES
    /\ ret[1] = metricsStore.requestLog[MAX_LOG_ENTRIES]
    /\ ret[1] # metricsStore.requestLog[1]
    /\ metricsStore.requestLog = SliceLast(done, MAX_LOG_ENTRIES)
    /\ metricsStore.customCounters # [k \in {} |-> 0]

(***************************************************************************)
(* Middleware/auth.js                                                      *)
(*                                                                         *)
(* An environment variable or a request header is <<>> when absent and     *)
(* <<value>> when present.                                                 *)
(***************************************************************************)
Absent == <<>>
Present(v) == <<v>>

DEFAULT_DEV_JWT_SECRET == "super_insecure_dev_key_PLEASE_CHANGE"

\* truthiness of an optional string held as a TLA+ string
TruthyEnv(x) == x # Absent /\ x[1] # ""

\* truthiness of an optional string held as characters
TruthyChars(x) == x # Absent /\ x[1] # <<>>

\* process.env.API_KEYS?.split(",").filter(Boolean) || []
LoadApiKeys(e) ==
    IF e.API_KEYS = Absent THEN <<>>
    ELSE FilterBoolean(Split(e.API_KEYS[1], ","))

\* the startup check takes its first branch
SecretInsecure(secret) ==
    ~TruthyEnv(secret) \/ secret = Present(DEFAULT_DEV_JWT_SECRET)

IsProduction(e) == e.NODE_ENV = Present("production")

CriticalMessage ==
    "CRITICAL SECURITY ERROR: JWT_SECRET is not configured or is insecure in production."
WarningMessage ==
    "Warning: JWT_SECRET is not defined. Using a default (development-only) key."
AdviceMessage ==
    "Please define a strong, unique secret key in your environment variables (e.g., in a .env file)."

\* what the startup check writes to the console
LoadMessages(e) ==
    IF SecretInsecure(e.JWT_SECRET)
    THEN {IF IsProduction(e) THEN CriticalMessage ELSE WarningMessage, AdviceMessage}
    ELSE {}

\* variant: the startup check also lets a production process go on
LoadProcAlwaysRuns(e) == "running"

\* the startup check: process.exit(1) or go on
LoadProc(e) ==
    IF SecretInsecure(e.JWT_SECRET) /\ IsProduction(e) THEN "exited" ELSE "running"

\* variant: no fallback secret is put in place
LoadEnvNoFallback(e) == e

\* the startup check: process.env after it
LoadEnv(e) ==
    IF SecretInsecure(e.JWT_SECRET) /\ ~IsProduction(e) /\ ~TruthyEnv(e.JWT_SECRET)
    THEN [e EXCEPT !.JWT_SECRET = Present(DEFAULT_DEV_JWT_SECRET)]
    ELSE e

(***************************************************************************)
(* jsonwebtoken: what jwt.verify(token, secret) does with a token.  A      *)
(* token is well formed or not, is signed with some key, and may be        *)
(* expired or not yet valid.                                               *)
(***************************************************************************)
TokenOf(tok) ==
    CASE tok = <<"g">> ->
            [wellFormed |-> TRUE, key |-> "s3cret", expired |-> FALSE,
             notBefore |-> FALSE, claims |-> "alice"]
      [] tok = <<"x">> ->
            [wellFormed |-> TRUE, key |-> "s3cret", expired |-> TRUE,
             notBefore |-> FALSE, claims |-> "alice"]
      [] tok = <<"d">> ->
            [wellFormed |-> TRUE, key |-> DEFAULT_DEV_JWT_SECRET, expired |-> FALSE,
             notBefore |-> FALSE, claims |-> "dev"]
      [] tok = <<"e">> ->
            [wellFormed |-> TRUE, key |-> DEFAULT_DEV_JWT_SECRET, expired |-> TRUE,
             notBefore |-> FALSE, claims |-> "dev"]
      [] tok = <<"n">> ->
            [wellFormed |-> TRUE, key |-> "s3cret", expired |-> FALSE,
             notBefore |-> TRUE, claims |-> "alice"]
      [] tok = <<"b">> ->
            [wellFormed |-> TRUE, key |-> "forged", expired |-> FALSE,
             notBefore |-> FALSE, claims |-> "mallory"]
      [] OTHER ->
            [wellFormed |-> FALSE, key |-> "", expired |-> FALSE,
             notBefore |-> FALSE, claims |-> ""]

\* jwt.verify: the decoded claims, or the name of the error it throws
JwtVerify(tok, secret) ==
    LET t == TokenOf(tok)
    IN  IF ~t.wellFormed \/ t.key # secret
        THEN [error |-> "JsonWebTokenError", decoded |-> ""]
        ELSE IF t.notBefore THEN [error |-> "NotBeforeError", decoded |-> ""]
        ELSE IF t.expired THEN [error |-> "TokenExpiredError", decoded |-> ""]
        ELSE [error |-> "", decoded |-> t.claims]

(***************************************************************************)
(* authenticateRequest(req, res, next)                                     *)
(***************************************************************************)
MsgApiKey == "API Key invalida."
MsgNoToken == "Token de autenticacion no proporcionado."
MsgNoSecret ==
    "Error de configuracion del servidor: clave secreta JWT no disponible."
MsgInvalid == "Token invalido."
MsgExpired == "Token expirado. Por favor, vuelva a autenticarse."
MsgMalformed == "Token JWT mal formado o invalido."
MsgDenied ==
    "Acceso denegado. Proporcione una API Key valida o un token JWT en el encabezado 'Authorization'."

BearerPrefix == <<"B", "e", "a", "r", "e", "r", " ">>

NoAuth == <<>>

\* res.status(code).json({status: "error", code, message, timestamp})
Reject(code, message, verifiedWith) ==
    [responses |-> <<[status |-> code, code |-> code, message |-> message]>>,
     nextCalls |-> 0,
     auth |-> NoAuth,
     verifiedWith |-> verifiedWith]

\* req.auth = auth; return next()
Proceed(auth, verifiedWith) ==
    [responses |-> <<>>,
     nextCalls |-> 1,
     auth |-> <<auth>>,
     verifiedWith |-> verifiedWith]

\* variant: every verification failure gets the same message
VerifyFailureOneMessage(errorName, secret) ==
    Reject(401, MsgInvalid, Present(secret))

\* the catch block around jwt.verify
VerifyFailure(errorName, secret) ==
    Reject(401,
           IF errorName = "TokenExpiredError" THEN MsgExpired
           ELSE IF errorName = "JsonWebTokenError" THEN MsgMalformed
           ELSE MsgInvalid,
           Present(secret))

\* the JWT branch, entered when the Authorization header starts with "Bearer "
JwtBranch(authHeader, e) ==
    LET token == Split(authHeader, " ")[2]
    IN  IF token = <<>> THEN Reject(401, MsgNoToken, Absent)
        ELSE IF ~TruthyEnv(e.JWT_SECRET) THEN Reject(500, MsgNoSecret, Absent)
        ELSE LET secret == e.JWT_SECRET[1]
                 v == JwtVerify(token, secret)
             IN  IF v.error = ""
                 THEN Proceed([method |-> "jwt", user |-> v.decoded],
                              Present(secret))
                 ELSE VerifyFailure(v.error, secret)

\* variant: a request without credentials is answered 401
NoCredentials401 == Reject(401, MsgDenied, Absent)

\* the final rejection, reached when neither branch was taken
NoCredentials == Reject(403, MsgDenied, Absent)

\* variant: the Authorization header is looked at before the API key
AuthenticateJwtFirst(req, keys, e) ==
    IF req.authorization # Absent /\ StartsWith(req.authorization[1], BearerPrefix)
    THEN JwtBranch(req.authorization[1], e)
    ELSE IF TruthyChars(req.apiKey)
    THEN IF Includes(keys, req.apiKey[1])
         THEN Proceed([method |-> "apiKey", apiKey |-> req.apiKey[1]],
                      Absent)
         ELSE Reject(401, MsgApiKey, Absent)
    ELSE NoCredentials

\* authenticateRequest: what it does with a request
AuthenticateRequestOf(req, keys, e) ==
    IF TruthyChars(req.apiKey)
    THEN IF Includes(keys, req.apiKey[1])
         THEN Proceed([method |-> "apiKey", apiKey |-> req.apiKey[1]],
                      Absent)
         ELSE Reject(401, MsgApiKey, Absent)
    ELSE IF req.authorization # Absent
              /\ StartsWith(req.authorization[1], BearerPrefix)
    THEN JwtBranch(req.authorization[1], e)
    ELSE NoCredentials

MsgInternal == "Error interno del servidor durante la autenticacion."
UnexpectedMessage == " Unexpected error in authentication middleware:"

\* the outer catch block
InternalFault == Reject(500, MsgInternal, Absent)

\* the calls of authenticateRequest that can throw an error of any kind:
\* req.header, jwt.verify (an error that is not one of jsonwebtoken's own)
\* and next
Faults == {"header", "verify", "next"}

\* whether the request gets as far as the call that throws
FaultReached(req, keys, e, fault) ==
    LET out == AuthenticateRequestOf(req, keys, e)
    IN  CASE fault = "header" -> TRUE
          [] fault = "verify" -> out.verifiedWith # Absent
          [] fault = "next" -> out.nextCalls = 1

\* authenticateRequest: what it does with a request when that call throws.
\* req.header is called in the outer try block; jwt.verify and the next() of
\* the JWT branch are called in the inner one, whose catch block answers 401;
\* the next() of the API key branch is called in the outer one.  A throwing
\* next() has been called, after req.auth was set.
AuthenticateFaultOf(req, keys, e, fault) ==
    LET out == AuthenticateRequestOf(req, keys, e)
    IN  CASE fault = "header" -> InternalFault
          [] fault = "verify" -> VerifyFailure("TypeError", out.verifiedWith[1])
          [] fault = "next" ->
                [out EXCEPT !.responses =
                    IF out.verifiedWith # Absent
                    THEN VerifyFailure("Error", out.verifiedWith[1]).responses
                    ELSE InternalFault.responses]

\* "Bearer " followed by the given text
Bearer(rest) == Present(BearerPrefix \o rest)

\* environments the process is started in
SecretsAtStart ==
    {Absent, Present(""), Present(DEFAULT_DEV_JWT_SECRET), Present("s3cret")}
ModesAtStart == {Absent, Present("production"), Present("development")}
ApiKeysAtStart ==
    {Absent, Present(<<>>), Present(<<"k", "1", ",", ",", "k", "2">>)}

\* requests handed to authenticateRequest
ApiKeyHeaders == {Absent, Present(<<>>), Present(<<"k", "1">>), Present(<<"z", "z">>)}
AuthorizationHeaders ==
    {Absent,
     Bearer(<<"g">>), Bearer(<<"x">>), Bearer(<<"d">>), Bearer(<<"e">>),
     Bearer(<<"n">>), Bearer(<<"b">>), Bearer(<<"m">>),
     Bearer(<<>>), Bearer(<<" ", "g">>), Bearer(<<"g", " ", "x">>),
     Present(<<"B", "e", "a", "r", "e", "r">>),
     Present(<<"b", "e", "a", "r", "e", "r", " ", "g">>),
     Present(<<"B", "a", "s", "i", "c", " ", "g">>)}
AuthRequests == [apiKey : ApiKeyHeaders, authorization : AuthorizationHeaders]

\* the module is loaded: lines 9-46 of auth.js
Load ==
    /\ proc = "loading"
    /\ API_KEYS' = LoadApiKeys(env)
    /\ JWT_SECRET' = env.JWT_SECRET
    /\ console' = console \cup LoadMessages(env)
    /\ proc' = LoadProc(env)
    /\ env' = LoadEnv(env)
    /\ UNCHANGED <<authReq, authOut, authFault>>

\* authenticateRequest(req, res, next) handles one request
AuthenticateRequest ==
    /\ proc = "running"
    /\ \E req \in AuthRequests :
          /\ authReq' = <<req>>
          /\ authOut' = <<AuthenticateRequestOf(req, API_KEYS, env)>>
    /\ authFault' = "none"
    /\ UNCHANGED <<env, proc, API_KEYS, JWT_SECRET, console>>

\* authenticateRequest(req, res, next) handles one request and one of the
\* calls it makes throws
AuthenticateRequestFault ==
    /\ proc = "running"
    /\ \E req \in AuthRequests, fault \in Faults :
          /\ FaultReached(req, API_KEYS, env, fault)
          /\ authReq' = <<req>>
          /\ authOut' = <<AuthenticateFaultOf(req, API_KEYS, env, fault)>>
          /\ authFault' = fault
          /\ console' = console \cup
                 IF authOut'[1].responses[1].message = MsgInternal
                 THEN {UnexpectedMessage}
                 ELSE {}
    /\ UNCHANGED <<env, proc, API_KEYS, JWT_SECRET>>

InitAuth ==
    /\ env \in [JWT_SECRET : SecretsAtStart,
                NODE_ENV : ModesAtStart,
                API_KEYS : ApiKeysAtStart]
    /\ proc = "loading"
    /\ API_KEYS = <<>>
    /\ JWT_SECRET = Absent
    /\ console = {}
    /\ authReq = <<>>
    /\ authOut = <<>>
    /\ authFault = "none"
    /\ metricsStore = EmptyStore
    /\ inFlight = {}
    /\ done = <<>>
    /\ lastCall = NoCall
    /\ ret = <<>>
    /\ valReq = <<>>
    /\ valOut = <<>>
    /\ errCall = <<>>
    /\ errOut = <<>>

NextAuth ==
    \/ Load /\ UNCHANGED <<metricsVars, valVars, errVars>>
    \/ AuthenticateRequest /\ UNCHANGED <<metricsVars, valVars, errVars>>

SpecAuth == InitAuth /\ [][NextAuth]_vars

\* the same process, in which a call made by authenticateRequest may throw
NextAuthFaults ==
    \/ NextAuth
    \/ AuthenticateRequestFault /\ UNCHANGED <<metricsVars, valVars, errVars>>

SpecAuthFaults == InitAuth /\ [][NextAuthFaults]_vars

(***************************************************************************)
(* Properties of authenticateRequest and of the startup check              *)
(***************************************************************************)
Handled == authOut # <<>>
TheReq == authReq[1]
TheOut == authOut[1]

HasApiKey(req) == req.apiKey # Absent /\ Len(req.apiKey[1]) > 0

IsBearer(req) ==
    /\ req.authorization # Absent
    /\ Len(req.authorization[1]) >= 7
    /\ \A i \in 1..7 : req.authorization[1][i] = BearerPrefix[i]

\* the text between "Bearer " and the next space
BearerToken(req) ==
    LET rest == SubSeq(req.authorization[1], 8, Len(req.authorization[1]))
        k == CHOOSE j \in 0..Len(rest) :
                 /\ \A i \in 1..j : rest[i] # " "
                 /\ (j = Len(rest) \/ rest[j + 1] = " ")
    IN  SubSeq(rest, 1, k)

RejectedWith(out, code) ==
    /\ Len(out.responses) = 1
    /\ out.responses[1].status = code
    /\ out.nextCalls = 0
    /\ out.auth = NoAuth

\* C6: with a non-empty X-API-KEY header the decision is taken on the key
\* alone, whatever the Authorization header holds: a whitelisted key sets
\* req.auth = {method: "apiKey", apiKey} and calls next, any other key is
\* answered 401 "API Key invalida."; jwt.verify is never called.
C6_ApiKeyDecidesAlone ==
    (Handled /\ HasApiKey(TheReq)) =>
        /\ TheOut.verifiedWith = Absent
        /\ IF \E i \in 1..Len(API_KEYS) : API_KEYS[i] = TheReq.apiKey[1]
           THEN /\ TheOut.auth = <<[method |-> "apiKey", apiKey |-> TheReq.apiKey[1]]>>
                /\ TheOut.nextCalls = 1
                /\ TheOut.responses = <<>>
           ELSE /\ RejectedWith(TheOut, 401)
                /\ TheOut.responses[1].message = MsgApiKey

\* a whitelisted key next to a Bearer token that would have been refused
C6_Witness ==
    /\ Handled
    /\ TheReq = [apiKey |-> Present(<<"k", "1">>), authorization |-> Bearer(<<"b">>)]
    /\ TheOut.nextCalls = 1
    /\ TheOut.auth = <<[method |-> "apiKey", apiKey |-> <<"k", "1">>]>>

\* the message a request would be refused with in the current process
MessageFor(req) == AuthenticateRequestOf(req, API_KEYS, env).responses[1].message

\* C7: without an API key and with 'Authorization: Bearer <token>': an empty
\* token is answered 401; a token that verifies proceeds with
\* req.auth = {method: "jwt", user: claims}; an expired token and a malformed
\* or badly signed token are answered 401, with different messages.
C7_BearerOutcomes ==
    (Handled /\ ~HasApiKey(TheReq) /\ IsBearer(TheReq)) =>
        LET token == BearerToken(TheReq)
            t == TokenOf(token)
            signed == t.wellFormed /\ Present(t.key) = env.JWT_SECRET
        IN  /\ token = <<>> => RejectedWith(TheOut, 401)
            /\ (token # <<>> /\ signed /\ ~t.expired /\ ~t.notBefore) =>
                  /\ TheOut.auth = <<[method |-> "jwt", user |-> t.claims]>>
                  /\ TheOut.nextCalls = 1
                  /\ TheOut.responses = <<>>
            /\ (token # <<>> /\ signed /\ t.expired /\ ~t.notBefore) =>
                  /\ RejectedWith(TheOut, 401)
                  /\ \A other \in AuthRequests :
                        (/\ ~HasApiKey(other) /\ IsBearer(other)
                         /\ BearerToken(other) # <<>>
                         /\ LET o == TokenOf(BearerToken(other))
                            IN  ~o.wellFormed \/ Present(o.key) # env.JWT_SECRET)
                        => MessageFor(other) # TheOut.responses[1].message
            /\ (token # <<>> /\ ~signed) => RejectedWith(TheOut, 401)

\* an expired token, correctly signed, was refused
C7_Witness ==
    /\ Handled
    /\ TheReq = [apiKey |-> Absent, authorization |-> Bearer(<<"x">>)]
    /\ env.JWT_SECRET = Present("s3cret")
    /\ RejectedWith(TheOut, 401)
    /\ TheOut.responses[1].message = MsgExpired

\* C8: a request with neither an API key nor a Bearer Authorization header
\* (another scheme included) is answered 403; next is not called and
\* req.auth is not set.
C8_NoCredentialsIs403 ==
    (Handled /\ ~HasApiKey(TheReq) /\ ~IsBearer(TheReq)) =>
        RejectedWith(TheOut, 403)

\* an Authorization header of another scheme was refused
C8_Witness ==
    /\ Handled
    /\ TheReq = [apiKey |-> Absent,
                 authorization |-> Present(<<"B", "a", "s", "i", "c", " ", "g">>)]
    /\ RejectedWith(TheOut, 403)

\* C9: once the module is loaded: with JWT_SECRET absent or equal to the
\* placeholder, a production process has exited and served no request, and
\* any other process runs, has been warned, and verifies tokens with the
\* insecure default; a configured secret that is not the placeholder is
\* left as it was and the process runs.
C9_StartupCheck ==
    proc # "loading" =>
        LET insecure == \/ JWT_SECRET = Absent
                        \/ JWT_SECRET = Present("")
                        \/ JWT_SECRET = Present(DEFAULT_DEV_JWT_SECRET)
            production == env.NODE_ENV = Present("production")
        IN  /\ (insecure /\ production) => (proc = "exited" /\ ~Handled)
            /\ (insecure /\ ~production) =>
                  /\ proc = "running"
                  /\ WarningMessage \in console
                  /\ env.JWT_SECRET = Present(DEFAULT_DEV_JWT_SECRET)
                  /\ Handled =>
                        TheOut.verifiedWith \in {Absent, Present(DEFAULT_DEV_JWT_SECRET)}
            /\ ~insecure =>
                  /\ proc = "running"
                  /\ env.JWT_SECRET = JWT_SECRET
                  /\ Handled => TheOut.verifiedWith \in {Absent, JWT_SECRET}

\* started without a secret outside production, a token signed with the
\* default secret was accepted
C9_Witness ==
    /\ proc = "running"
    /\ JWT_SECRET = Absent
    /\ Handled
    /\ TheReq = [apiKey |-> Absent, authorization |-> Bearer(<<"d">>)]
    /\ TheOut.verifiedWith = Present(DEFAULT_DEV_JWT_SECRET)
    /\ TheOut.nextCalls = 1

\* whether the credentials of a request are good in the current process
Authenticated(req) ==
    IF HasApiKey(req)
    THEN \E i \in 1..Len(API_KEYS) : API_KEYS[i] = req.apiKey[1]
    ELSE /\ IsBearer(req)
         /\ BearerToken(req) # <<>>
         /\ LET t == TokenOf(BearerToken(req))
            IN  /\ t.wellFormed /\ ~t.expired /\ ~t.notBefore
                /\ env.JWT_SECRET = Present(t.key)
                /\ t.key # ""

\* C14: for every request authenticateRequest either calls next once and
\* sends no response, or sends one response with status 401, 403 or 500 and
\* does not call next; it calls next and sets req.auth only if the API key
\* is whitelisted or, without an API key, the Bearer token verified;
\* req.auth is not set on a rejected request; and when a call made inside
\* the middleware throws, the request is answered 500.
C14_OneTerminalAction ==
    Handled =>
        /\ \/ TheOut.nextCalls = 1 /\ TheOut.responses = <<>>
           \/ /\ TheOut.nextCalls = 0
              /\ Len(TheOut.responses) = 1
              /\ TheOut.responses[1].status \in {401, 403, 500}
        /\ (TheOut.nextCalls > 0 \/ TheOut.auth # NoAuth) => Authenticated(TheReq)
        /\ TheOut.responses # <<>> => TheOut.auth = NoAuth
        /\ authFault # "none" =>
              /\ Len(TheOut.responses) = 1
              /\ TheOut.responses[1].status = 500

(***************************************************************************)
(* Middleware/validacion.js: validarInteraccion(req, res, next)            *)
(***************************************************************************)

\* !v for the values a JSON body can hold
Falsy(v) ==
    \/ v.t \in {"undefined", "null"}
    \/ v.t = "number" /\ v.n = 0
    \/ v.t = "string" /\ v.s = <<>>

\* !v || typeof v !== "string" || v.trim() === ""
FieldInvalid(v) ==
    IF Falsy(v) THEN TRUE
    ELSE IF v.t # "string" THEN TRUE
    ELSE Trim(v.s) = <<>>

MsgUsuarioId ==
    "El campo 'usuarioId' es obligatorio y debe ser una cadena valida no vacia."
MsgMensajeUsuario ==
    "El campo 'mensajeUsuario' es obligatorio y debe ser una cadena valida no vacia."

\* res.status(400).json({status, code, message, details: {parameter}, timestamp})
BadRequest(parameter, message) ==
    [responses |-> <<[status |-> 400, code |-> 400, message |-> message,
                      details |-> [parameter |-> parameter]]>>,
     nextCalls |-> 0]

\* variant: the message field is checked before the user id
ValidarMensajeFirst(body) ==
    IF FieldInvalid(body.mensajeUsuario)
    THEN BadRequest("mensajeUsuario", MsgMensajeUsuario)
    ELSE IF FieldInvalid(body.usuarioId)
    THEN BadRequest("usuarioId", MsgUsuarioId)
    ELSE [responses |-> <<>>, nextCalls |-> 1]

\* validarInteraccion: what it does with a body
ValidarInteraccionOf(body) ==
    IF FieldInvalid(body.usuarioId)
    THEN BadRequest("usuarioId", MsgUsuarioId)
    ELSE IF FieldInvalid(body.mensajeUsuario)
    THEN BadRequest("mensajeUsuario", MsgMensajeUsuario)
    ELSE [responses |-> <<>>, nextCalls |-> 1]

\* values a field of the body is given
FieldValues ==
    {Undefined, Null, Num(0), Num(5), Obj,
     Str(<<>>), Str(<<" ">>), Str(<<"\t", " ">>),
     Str(<<"u", "1">>), Str(<<" ", "h", "i", " ">>), Str(<<"0">>)}

Bodies == [usuarioId : FieldValues, mensajeUsuario : FieldValues]

\* validarInteraccion(req, res, next) handles one request
ValidarInteraccion ==
    \E body \in Bodies :
        /\ valReq' = <<body>>
        /\ valOut' = <<ValidarInteraccionOf(body)>>

InitVal ==
    /\ valReq = <<>>
    /\ valOut = <<>>
    /\ errCall = <<>>
    /\ errOut = <<>>
    /\ metricsStore = EmptyStore
    /\ inFlight = {}
    /\ done = <<>>
    /\ lastCall = NoCall
    /\ ret = <<>>
    /\ console = {}
    /\ env = [JWT_SECRET |-> Absent, NODE_ENV |-> Absent, API_KEYS |-> Absent]
    /\ proc = "loading"
    /\ API_KEYS = <<>>
    /\ JWT_SECRET = Absent
    /\ authReq = <<>>
    /\ authOut = <<>>
    /\ authFault = "none"

NextVal ==
    ValidarInteraccion /\ UNCHANGED <<metricsVars, console, authVars, errVars>>

SpecVal == InitVal /\ [][NextVal]_vars

(***************************************************************************)
(* Properties of validarInteraccion                                        *)
(***************************************************************************)

\* a string with at least one character that is not white space
NonBlankString(v) ==
    v.t = "string" /\ \E i \in 1..Len(v.s) : v.s[i] \notin WhiteSpace

\* C10: usuarioId is checked first and mensajeUsuario second, each required
\* to be a string that is not empty after trimming; the first failing field
\* gives a 400 whose details.parameter names that field (usuarioId when both
\* fail) and next is not called; when both pass next is called and nothing
\* is sent.
C10_FirstFailingFieldNamed ==
    valOut # <<>> =>
        LET body == valReq[1]
            out == valOut[1]
            named(f) == /\ Len(out.responses) = 1
                        /\ out.responses[1].status = 400
                        /\ out.responses[1].details.parameter = f
                        /\ out.nextCalls = 0
        IN  IF ~NonBlankString(body.usuarioId) THEN named("usuarioId")
            ELSE IF ~NonBlankString(body.mensajeUsuario) THEN named("mensajeUsuario")
            ELSE out.responses = <<>> /\ out.nextCalls = 1

\* both fields fail and the answer names usuarioId
C10_Witness ==
    /\ valOut # <<>>
    /\ valReq[1] = [usuarioId |-> Str(<<" ">>), mensajeUsuario |-> Num(5)]
    /\ valOut[1].responses[1].details.parameter = "usuarioId"
    /\ valOut[1].nextCalls = 0

(***************************************************************************)
(* Middleware/validacion.js: class AppError and class Errores              *)
(*                                                                         *)
(* A message is a sequence of pieces of text, so that a message given by   *)
(* the caller (characters) and a fixed message (one piece) are values of   *)
(* one kind and a template literal is a concatenation.                     *)
(***************************************************************************)

\* the number value NaN
NaNValue == [t |-> "nan", n |-> 0, s |-> <<>>]

\* typeof v
TypeOf(v) ==
    CASE v.t = "nan" -> "number"
      [] v.t = "null" -> "object"
      [] OTHER -> v.t

\* v < k and v >= k for a number v: both are false of NaN
NumLess(v, k) == v.t = "number" /\ v.n < k
NumAtLeast(v, k) == v.t = "number" /\ v.n >= k

LogMessage == "[ERROR] AppError"
CodeWarning == "Codigo de error es inusual o invalido. Usando 500."

\* new AppError(message, code, details, shouldLog): the object built
AppError(message, code, type, shouldLog) ==
    [name |-> "AppError",
     message |-> message,
     code |-> code,
     details |-> [type |-> type],
     logged |-> shouldLog]

Returned(err) == [threw |-> FALSE, error |-> <<err>>]
Thrown == [threw |-> TRUE, error |-> <<>>]

\* what a call writes to the console
ConsoleOf(out, warned) ==
    (IF out.error # <<>> /\ out.error[1].logged THEN {LogMessage} ELSE {})
        \cup (IF warned THEN {CodeWarning} ELSE {})

\* messages[language] || messages["es"], language defaulting to "es"
Localized(language, es, en) ==
    IF language = Str(<<"e", "n">>) THEN en ELSE es

\* Errores.Unauthorized(language)
UnauthorizedOf(language) ==
    Returned(AppError(
        Localized(language,
                  <<"Acceso no autorizado. Se requiere autenticacion valida.">>,
                  <<"Unauthorized access. Valid authentication is required.">>),
        Num(401), "authentication_error", FALSE))

\* Errores.Forbidden(language)
ForbiddenOf(language) ==
    Returned(AppError(
        Localized(language,
                  <<"Acceso denegado. No tiene los permisos necesarios para realizar esta accion.">>,
                  <<"Access denied. You do not have the necessary permissions to perform this action.">>),
        Num(403), "authorization_error", FALSE))

\* Errores.NotFound(resourceName, language); resourceName.toLowerCase()
\* throws unless resourceName is a string
NotFoundOf(resourceName, language) ==
    LET name == IF resourceName.t = "undefined"
                THEN Str(<<"R", "e", "c", "u", "r", "s", "o">>)
                ELSE resourceName
    IN  IF name.t # "string" THEN Thrown
        ELSE Returned(AppError(
                 Localized(language,
                           name.s \o <<" no encontrado.">>,
                           name.s \o <<" not found.">>),
                 Num(404), "not_found_error", FALSE))

\* Errores.Custom: the code after the range check
CustomCode(code) ==
    LET given == IF code.t = "undefined" THEN Num(500) ELSE code
    IN  IF TypeOf(given) # "number" \/ NumLess(given, 100) \/ NumAtLeast(given, 600)
        THEN Num(500)
        ELSE given

\* Errores.Custom: whether the range check warns
CustomWarns(code) ==
    LET given == IF code.t = "undefined" THEN Num(500) ELSE code
    IN  TypeOf(given) # "number" \/ NumLess(given, 100) \/ NumAtLeast(given, 600)

\* Errores.Custom(message, code, details, shouldLog)
CustomOf(message, code, shouldLog) ==
    IF TypeOf(message) # "string" \/ Trim(message.s) = <<>> THEN Thrown
    ELSE Returned(AppError(message.s, CustomCode(code), "custom", shouldLog))

\* Errores.InternalServerError(originalError, language)
InternalServerErrorOf(language) ==
    Returned(AppError(
        Localized(language,
                  <<"Ocurrio un error inesperado en el servidor.">>,
                  <<"An unexpected server error occurred.">>),
        Num(500), "internal_server_error", TRUE))

\* arguments the factories are called with
Languages == {Undefined, Str(<<"e", "s">>), Str(<<"e", "n">>), Str(<<"f", "r">>)}
ResourceNames == {Undefined, Str(<<"C", "h", "a", "t">>), Num(5)}
CustomMessages == {Str(<<"x">>), Str(<<>>), Str(<<" ">>), Num(5), Undefined}
CustomCodes ==
    {Undefined, Null, NaNValue, Str(<<"4", "0", "4">>),
     Num(0 - 1), Num(99), Num(100), Num(400), Num(599), Num(600), Num(999)}

Unauthorized ==
    \E language \in Languages :
        /\ errCall' = <<[op |-> "Unauthorized", args |-> <<language>>]>>
        /\ errOut' = <<UnauthorizedOf(language)>>
        /\ console' = console \cup ConsoleOf(UnauthorizedOf(language), FALSE)

Forbidden ==
    \E language \in Languages :
        /\ errCall' = <<[op |-> "Forbidden", args |-> <<language>>]>>
        /\ errOut' = <<ForbiddenOf(language)>>
        /\ console' = console \cup ConsoleOf(ForbiddenOf(language), FALSE)

NotFound ==
    \E resourceName \in ResourceNames, language \in Languages :
        /\ errCall' = <<[op |-> "NotFound", args |-> <<resourceName, language>>]>>
        /\ errOut' = <<NotFoundOf(resourceName, language)>>
        /\ console' = console \cup ConsoleOf(NotFoundOf(resourceName, language), FALSE)

Custom ==
    \E message \in CustomMessages, code \in CustomCodes, shouldLog \in BOOLEAN :
        LET out == CustomOf(message, code, shouldLog)
        IN  /\ errCall' = <<[op |-> "Custom", args |-> <<message, code>>]>>
            /\ errOut' = <<out>>
            /\ console' = console \cup ConsoleOf(out, ~out.threw /\ CustomWarns(code))

InternalServerError ==
    \E language \in Languages :
        /\ errCall' = <<[op |-> "InternalServerError", args |-> <<language>>]>>
        /\ errOut' = <<InternalServerErrorOf(language)>>
        /\ console' = console \cup ConsoleOf(InternalServerErrorOf(language), FALSE)

InitErr ==
    /\ errCall = <<>>
    /\ errOut = <<>>
    /\ console = {}
    /\ metricsStore = EmptyStore
    /\ inFlight = {}
    /\ done = <<>>
    /\ lastCall = NoCall
    /\ ret = <<>>
    /\ env = [JWT_SECRET |-> Absent, NODE_ENV |-> Absent, API_KEYS |-> Absent]
    /\ proc = "loading"
    /\ API_KEYS = <<>>
    /\ JWT_SECRET = Absent
    /\ authReq = <<>>
    /\ authOut = <<>>
    /\ authFault = "none"
    /\ valReq = <<>>
    /\ valOut = <<>>

NextErr ==
    \/ Unauthorized /\ UNCHANGED <<metricsVars, authVars, valVars>>
    \/ Forbidden /\ UNCHANGED <<metricsVars, authVars, valVars>>
    \/ NotFound /\ UNCHANGED <<metricsVars, authVars, valVars>>
    \/ Custom /\ UNCHANGED <<metricsVars, authVars, valVars>>
    \/ InternalServerError /\ UNCHANGED <<metricsVars, authVars, valVars>>

SpecErr == InitErr /\ [][NextErr]_vars

(***************************************************************************)
(* Properties of the Errores factories                                     *)
(***************************************************************************)

\* a code that is a number from 100 up to, not including, 600
InRange(code) == code.t = "number" /\ 100 <= code.n /\ code.n < 600

\* C11: every AppError a factory returns has its code in [100, 600); Custom
\* given a code that is not a number or lies outside [100, 600) returns code
\* 500 and warns, and keeps a code inside the range as given.
C11_CodeInRange ==
    (errOut # <<>> /\ ~errOut[1].threw) =>
        LET err == errOut[1].error[1]
            call == errCall[1]
        IN  /\ InRange(err.code)
            /\ call.op = "Custom" =>
                  LET code == call.args[2]
                  IN  IF code.t = "undefined" THEN err.code = Num(500)
                      ELSE IF InRange(code) THEN err.code = code
                      ELSE err.code = Num(500) /\ CodeWarning \in console

====
